---- MODULE Spec2Model ----
(***************************************************************************)
(* A model of the element / image-locator layer of albion_auto_orders:     *)
(*   src/src/packages/element/element.py              class Element        *)
(*   src/src/packages/image_manager/image_manager.py  class ImageManager   *)
(*                                                                         *)
(* The program is single threaded.  These specifications share the state:  *)
(*   Spec        the Element tree: construction, set_location, set_parent, *)
(*               add_child, remove_child                                   *)
(*   SpecClick   construction, a changing screen and Element.click         *)
(*   SpecInsert  construction, a changing screen and Element.insert        *)
(*   SpecVisible Element.visible over a folder that loses files            *)
(*   SpecWait    ImageManager.wait_image / wait_text against a clock       *)
(*   SpecTill    ImageManager.wait_till_visible and its wait_image rounds  *)
(*   SpecLocate  construction, a changing screen and Element.locate        *)
(*   SpecText    ImageManager.move_to_text over the captures of the OCR    *)
(*   SpecRepo    the image directory and ImageManager.load_images          *)
(***************************************************************************)
EXTENDS Integers, Sequences, FiniteSets, TLC

(***************************************************************************)
(* Bounds of the model.                                                    *)
(***************************************************************************)
\* how many Element objects are constructed
MaxElems == 4
\* file stems are 1..MaxNames; the i-th Element constructed is given the
\* stem StemOf(i), so that with more Elements than stems two share a stem
MaxNames == 2
\* the points given by callers are <<c, 2c>> for c in 0..MaxCoord
MaxCoord == 1
\* how many calls are made on the Elements after their construction
MaxCalls == 2
\* path_to_origin only grows: set_parent is not called on an Element whose
\* path would get longer than this
MaxPath == 4

(***************************************************************************)
(* Python values.                                                          *)
(***************************************************************************)
\* None where a tuple (a location) is expected
None == <<>>
\* None where an Element is expected (ids of Elements are 1..MaxElems)
NoElem == 0
\* None where a number (x, y of set_location) is expected
NoCoord == -1

Ids == 1..MaxElems
Names == 1..MaxNames
StemOf(i) == ((i - 1) % MaxNames) + 1
Points == {<<c, 2 * c>> : c \in 0..MaxCoord}
Origin == <<0, 0>>

Add(p, q) == <<p[1] + q[1], p[2] + q[2]>>

\* `v or (0, 0)` for v a tuple or None: every tuple of two numbers is truthy
OrOrigin(v) == IF v = None THEN Origin ELSE v

(***************************************************************************)
(* A dict {key: Element} as the sequence of its <<key, value>> items in    *)
(* insertion order, which is the order Python iterates it in.              *)
(***************************************************************************)
DictHas(d, k) == \E i \in DOMAIN d : d[i][1] = k

\* d.get(k)
DictGet(d, k) ==
    IF DictHas(d, k) THEN d[CHOOSE i \in DOMAIN d : d[i][1] = k][2] ELSE NoElem

\* d[k] = v, d.update({k: v}): an existing key keeps its position
DictSet(d, k, v) ==
    IF DictHas(d, k)
    THEN [i \in DOMAIN d |-> IF d[i][1] = k THEN <<k, v>> ELSE d[i]]
    ELSE Append(d, <<k, v>>)

\* d.pop(k)
DictPop(d, k) == SelectSeq(d, LAMBDA kv : kv[1] # k)

\* d.values()
DictValues(d) == [i \in DOMAIN d |-> d[i][2]]

\* d.keys()
DictKeys(d) == [i \in DOMAIN d |-> d[i][1]]

(***************************************************************************)
(* State.                                                                  *)
(***************************************************************************)
VARIABLES
    \* Element objects: functions over the ids of the constructed Elements
    name,            \* Element.name, the stem of Element.element
    image_manager,   \* whether Element.image_manager is not None
    parent,          \* Element.parent, an id or NoElem
    children,        \* Element.children, a dict
    offset,          \* <<Element._offsetx, Element._offsety>>
    location,        \* Element.location, a point or None
    path_to_origin,  \* Element.path_to_origin, a sequence of ids
    valid,           \* Element._valid
    \* ImageManager and its directory
    folder,          \* the files of folder_path: <<stem, extension>> -> content
    images_map,      \* ImageManager.images_map: stem -> decoded image
    \* the screen and the input device
    screen,          \* the stems of the reference images visible on screen
    events,          \* pointer events emitted by the last call
    ret,             \* how the last call ended, what click / wait returned
    calls,           \* the number of calls made after the constructions
    \* the call in progress (the program is single threaded)
    frame            \* a record: pc, op and the locals of the running call

elemVars == <<name, image_manager, parent, children, offset, location,
              path_to_origin, valid>>
repoVars == <<folder, images_map>>
vars == <<name, image_manager, parent, children, offset, location,
          path_to_origin, valid, folder, images_map, screen, events, ret,
          calls, frame>>

Elements == DOMAIN name

\* the part of the Elements that set_location reads and writes
Heap == [parent |-> parent, children |-> children, offset |-> offset,
         location |-> location]

(***************************************************************************)
(* Element.set_location and Element._update_children_location, as a        *)
(* function of the heap h (parent, children, offset, location) that gives  *)
(* the heap's location after the call.  The two are mutually recursive in  *)
(* the source, along the children dicts.                                   *)
(***************************************************************************)
RECURSIVE set_location(_, _, _, _, _), update_children_location(_, _)

\* a mutant: the children are moved, their own children are not
RECURSIVE update_children_shallow(_, _)
update_children_shallow(h, cs) ==
    IF cs = <<>> THEN h
    ELSE LET c == Head(cs)
             moved == IF h.parent[c] = NoElem THEN h
                      ELSE [h EXCEPT !.location[c] =
                               Add(OrOrigin(h.location[h.parent[c]]), h.offset[c])]
         IN  update_children_shallow(moved, Tail(cs))

\* for element in self.children.values(): element.set_location()
\* (cs is what is left of self.children.values())
update_children_location(h, cs) ==
    IF cs = <<>> THEN h
    ELSE update_children_location(
             set_location(h, Head(cs), None, NoCoord, NoCoord), Tail(cs))

set_location(h, e, loc, x, y) ==
    LET self_children == DictValues(h.children[e])
        assign(v) == [h EXCEPT !.location[e] = v]
    IN  IF loc = None /\ x = NoCoord /\ y = NoCoord /\ h.parent[e] = NoElem
        THEN update_children_location(h, self_children)
        ELSE IF h.parent[e] = NoElem
        THEN update_children_location(h, self_children)
        ELSE LET base == OrOrigin(h.location[h.parent[e]])
             IN  IF loc # None
                 THEN update_children_location(assign(Add(base, loc)), self_children)
                 ELSE IF x # NoCoord /\ y # NoCoord
                 THEN update_children_location(assign(Add(base, <<x, y>>)), self_children)
                 ELSE update_children_location(
                          assign(Add(base, h.offset[e])), self_children)

\* what set_location returns, given the heap h1 it leaves
set_location_result(h1, e, loc, x, y) ==
    IF loc = None /\ x = NoCoord /\ y = NoCoord /\ h1.parent[e] = NoElem
    THEN loc
    ELSE IF h1.parent[e] = NoElem THEN OrOrigin(loc)
    ELSE h1.location[e]

(***************************************************************************)
(* Element.set_walk_path(element): what it appends to self.path_to_origin, *)
(* under the parent links par.                                             *)
(***************************************************************************)
RECURSIVE set_walk_path(_, _)
set_walk_path(par, element) ==
    IF par[element] # NoElem
    THEN <<par[element]>> \o set_walk_path(par, par[element])
    ELSE <<>>

\* the ancestors of e along the parent links, and the Elements reachable
\* from e along the children dicts
RECURSIVE Ancestors(_, _)
Ancestors(par, e) ==
    IF par[e] = NoElem THEN {} ELSE {par[e]} \cup Ancestors(par, par[e])

Range(f) == {f[i] : i \in DOMAIN f}

RECURSIVE Reach(_, _)
Reach(ch, e) ==
    LET cs == Range(DictValues(ch[e]))
    IN  cs \cup UNION {Reach(ch, c) : c \in cs}

\* The recursions of set_walk_path and set_location end only on links
\* without a cycle (on a cycle Python raises RecursionError part way).  The
\* calls of the model are those that keep the links free of cycles:
\* c.parent = p may be set when ParentLinkOk, p.children[..] = c when
\* ChildLinkOk.
ParentLinkOk(c, p) == c # p /\ c \notin Ancestors(parent, p)
ChildLinkOk(p, c) == p # c /\ p \notin Reach(children, c)

(***************************************************************************)
(* Element._check_image_manager_instance                                   *)
(***************************************************************************)
\* a variant that does not look for the file in the folder
check_images_map_only(mgr, nm) == mgr /\ nm \in DOMAIN images_map

\* lines 68-105: the manager is there, a file of its folder has the stem,
\* and the stem is a key of images_map
check_image_manager_instance(mgr, nm) ==
    /\ mgr
    /\ \E f \in DOMAIN folder : f[1] = nm
    /\ nm \in DOMAIN images_map

(***************************************************************************)
(* The initial state: ImageManager(folder_path) has been constructed over  *)
(* a directory that holds one decodable image, of stem 1; no Element yet.  *)
(***************************************************************************)
\* a file is <<stem, extension>>; its content is the image it decodes to,
\* or NotAnImage when cv2.imread returns None for it
NotAnImage == 0
InitFolder == (<<1, 1>> :> 1)

Idle == [pc |-> "idle"]
\* no call is in progress: the last one, if any, has returned to its caller
NoCall == frame.pc = "idle"

Init ==
    /\ name = <<>>
    /\ image_manager = <<>>
    /\ parent = <<>>
    /\ children = <<>>
    /\ offset = <<>>
    /\ location = <<>>
    /\ path_to_origin = <<>>
    /\ valid = <<>>
    /\ folder = InitFolder
    /\ images_map = (1 :> 1)
    /\ screen = {}
    /\ events = <<>>
    /\ ret = "none"
    /\ calls = 0
    /\ frame = Idle

(***************************************************************************)
(* Element.__init__(name, image_manager, location, parent), children=None  *)
(***************************************************************************)
Construct(nm, mgr, loc, par) ==
    LET self == Cardinality(Elements) + 1
        \* lines 52-57: the attributes set before set_location runs
        h0 == [parent   |-> parent @@ (self :> par),
               children |-> children @@ (self :> <<>>),
               offset   |-> offset @@ (self :> OrOrigin(loc)),
               location |-> location @@ (self :> None)]
        \* line 58: self.location = self.set_location(location)
        h1 == set_location(h0, self, loc, NoCoord, NoCoord)
        h2 == [h1 EXCEPT !.location[self] =
                   set_location_result(h1, self, loc, NoCoord, NoCoord)]
    IN  /\ NoCall
        /\ self <= MaxElems
        /\ name' = name @@ (self :> nm)
        /\ image_manager' = image_manager @@ (self :> mgr)
        /\ offset' = h2.offset
        /\ location' = h2.location
        /\ valid' = valid @@ (self :> check_image_manager_instance(mgr, nm))
        \* line 66: self.set_parent(parent)
        /\ parent' = h2.parent
        /\ children' = IF par # NoElem
                       THEN [h2.children EXCEPT ![par] = DictSet(@, nm, self)]
                       ELSE h2.children
        /\ path_to_origin' =
               path_to_origin @@ (self :> <<self>> \o set_walk_path(h2.parent, self))
        /\ ret' = "returned"
        /\ UNCHANGED <<repoVars, screen, events, calls, frame>>

(***************************************************************************)
(* Element.set_location(location, x, y) called on e                        *)
(***************************************************************************)
\* one more call on the constructed Elements
Called == calls < MaxCalls /\ calls' = calls + 1

ElementSetLocation(e, loc, x, y) ==
    /\ Called
    /\ ret' = "returned"
    /\ UNCHANGED <<name, image_manager, parent, children, offset,
                   path_to_origin, valid, repoVars, screen, events, frame>>
    /\ location' = set_location(Heap, e, loc, x, y).location

(***************************************************************************)
(* Element.set_parent(parent) called on e; p is an Element or NoElem       *)
(***************************************************************************)
ElementSetParent(e, p) ==
    /\ Called
    /\ IF parent[e] = NoElem
       THEN \* line 318 is false: nothing is done
            /\ ret' = "returned"
            /\ UNCHANGED <<elemVars, repoVars, screen, events, frame>>
       ELSE IF p = NoElem
       THEN \* line 319 clears the parent, line 320 raises on None.children
            /\ parent' = [parent EXCEPT ![e] = NoElem]
            /\ ret' = "AttributeError"
            /\ UNCHANGED <<name, image_manager, children, offset, location,
                           path_to_origin, valid, repoVars, screen, events, frame>>
       ELSE /\ ParentLinkOk(e, p) /\ ChildLinkOk(p, e)
            /\ parent' = [parent EXCEPT ![e] = p]
            /\ children' = [children EXCEPT ![p] = DictSet(@, name[e], e)]
            /\ path_to_origin' =
                   [path_to_origin EXCEPT ![e] = @ \o set_walk_path(parent', e)]
            /\ Len(path_to_origin'[e]) <= MaxPath
            /\ ret' = "returned"
            /\ UNCHANGED <<name, image_manager, offset, location, valid,
                           repoVars, screen, events, frame>>

(***************************************************************************)
(* Element._get_children(children) called on self.  The argument is given  *)
(* by its kind and the one Element c it holds:                             *)
(*   "dict"     {c.name: c}      "list"  [c]      "element"  c             *)
(* The result is the parent links it leaves, the dict it returns, and      *)
(* whether it raised: lines 298 and 301 read child.image, an attribute no  *)
(* Element has (AttributeError), after line 297 / 300 has set the parent.  *)
(***************************************************************************)
get_children(self, kind, c) ==
    IF kind = "dict"
    THEN [parent |-> parent, dict |-> << <<name[c], c>> >>, raised |-> FALSE]
    ELSE [parent |-> [parent EXCEPT ![c] = self], dict |-> <<>>, raised |-> TRUE]

ChildKinds == {"dict", "list", "element"}

(***************************************************************************)
(* Element.add_child(children, overwrite) called on e                      *)
(***************************************************************************)
\* lines 358-365 for the items of the dict d, in order
RECURSIVE add_items(_, _, _)
add_items(mine, d, overwrite) ==
    IF d = <<>> THEN mine
    ELSE LET k == Head(d)[1]
             child == Head(d)[2]
             child_found == DictGet(mine, k)
         IN  IF child_found # NoElem /\ ~overwrite
             THEN add_items(mine, Tail(d), overwrite)
             ELSE add_items(DictSet(mine, k, child), Tail(d), overwrite)

ElementAddChild(e, kind, c, overwrite) ==
    LET got == get_children(e, kind, c)
    IN  /\ Called
        /\ IF got.raised THEN ParentLinkOk(c, e) ELSE ChildLinkOk(e, c)
        /\ parent' = got.parent
        /\ children' = IF got.raised THEN children
                       ELSE [children EXCEPT ![e] = add_items(@, got.dict, overwrite)]
        /\ ret' = IF got.raised THEN "AttributeError" ELSE "returned"
        /\ UNCHANGED <<name, image_manager, offset, location, path_to_origin,
                       valid, repoVars, screen, events, frame>>

(***************************************************************************)
(* Element.remove_child(children) called on e                              *)
(***************************************************************************)
\* lines 383-386 for the keys of the dict
RECURSIVE remove_keys(_, _)
remove_keys(mine, ks) ==
    IF ks = <<>> THEN mine
    ELSE IF DictGet(mine, Head(ks)) # NoElem
         THEN remove_keys(DictPop(mine, Head(ks)), Tail(ks))
         ELSE remove_keys(mine, Tail(ks))

ElementRemoveChild(e, kind, c) ==
    LET got == get_children(e, kind, c)
    IN  /\ Called
        /\ got.raised => ParentLinkOk(c, e)
        /\ parent' = got.parent
        /\ children' = IF got.raised THEN children
                       ELSE [children EXCEPT ![e] = remove_keys(@, DictKeys(got.dict))]
        /\ ret' = IF got.raised THEN "AttributeError" ELSE "returned"
        /\ UNCHANGED <<name, image_manager, offset, location, path_to_origin,
                       valid, repoVars, screen, events, frame>>

(***************************************************************************)
(* The Element tree.                                                       *)
(***************************************************************************)
LocationArgs ==
    {<<loc, NoCoord, NoCoord>> : loc \in Points \cup {None}}
        \cup {<<None, p[1], p[2]>> : p \in Points}

Next ==
    \/ \E loc \in Points \cup {None}, par \in Elements \cup {NoElem} :
          Construct(StemOf(Cardinality(Elements) + 1), TRUE, loc, par)
    \/ \E e \in Elements, a \in LocationArgs : ElementSetLocation(e, a[1], a[2], a[3])
    \/ \E e \in Elements, p \in Elements \cup {NoElem} : ElementSetParent(e, p)
    \/ \E e \in Elements, c \in Elements, kind \in ChildKinds, overwrite \in BOOLEAN :
          ElementAddChild(e, kind, c, overwrite)
    \/ \E e \in Elements, c \in Elements, kind \in ChildKinds :
          ElementRemoveChild(e, kind, c)

Spec == Init /\ [][Next]_vars

(***************************************************************************)
(* Element.click.  The input device is the log `events` of what pyautogui  *)
(* was asked to do during the last call; `screen` holds the stems of the   *)
(* reference images that a search of the screen can find.                  *)
(***************************************************************************)
\* more bounds: the repeat counts are 1..MaxTimes, and the Elements that
\* SpecClick constructs are at most MaxChain
MaxTimes == 2
MaxChain == 3

\* pyautogui.LEFT, pyautogui.RIGHT, pyautogui.MIDDLE
Buttons == {"left", "right", "middle"}
\* the `through` argument: the two documented values and any other string
Throughs == {"coordinates", "image", "other"}

\* pyautogui.moveTo(x, y) and pyautogui.click(button, clicks), emitted while
\* clicking the Element e
MoveTo(e, p) == [el |-> e, type |-> "moveTo", at |-> p]
Click(e, button, times) ==
    [el |-> e, type |-> "click", button |-> button, clicks |-> times]

BoolStr(b) == IF b THEN "True" ELSE "False"

\* Element.visible(): _check_image_manager_instance() and then
\* image_manager.wait_image(self.name), which finds the images on screen
visible(e) ==
    /\ check_image_manager_instance(image_manager[e], name[e])
    /\ name[e] \in screen

\* ImageManager.click_image(name, button, times, offset) for the Element e;
\* found is what its own locate_image returns, a point or None
click_image(e, button, times, offs, found) ==
    IF found = None
    THEN [ev |-> <<>>, ok |-> FALSE]
    ELSE IF button \in {"left", "right"}
    THEN [ev |-> <<MoveTo(e, Add(found, offs)), Click(e, button, times)>>,
          ok |-> TRUE]
    ELSE [ev |-> <<MoveTo(e, Add(found, offs))>>, ok |-> FALSE]

\* what locate_image(name) can return: None when the image is not mapped
\* or not on screen, and else the point where it is or None (the search of
\* click_image runs later than the one of visible(), and may miss)
Found(nm) ==
    IF nm \in DOMAIN images_map /\ nm \in screen
    THEN Points \cup {None} ELSE {None}

\* a variant that clicks at the cached location itself
click_coordinates_no_offset(e, button, offs, times) ==
    IF location[e] = None
    THEN [ev |-> <<>>, ok |-> FALSE, searched |-> FALSE]
    ELSE [ev |-> <<MoveTo(e, location[e]), Click(e, button, times)>>,
          ok |-> TRUE, searched |-> FALSE]

\* Element._click_coordinates(button, offset, times)
click_coordinates(e, button, offs, times) ==
    IF location[e] = None
    THEN [ev |-> <<>>, ok |-> FALSE, searched |-> FALSE]
    ELSE [ev |-> <<MoveTo(e, Add(location[e], offs)), Click(e, button, times)>>,
          ok |-> TRUE, searched |-> FALSE]

\* Element._click_image(offset, confidence, button, times): the result of
\* image_manager.click_image is dropped.  searched is whether the screen
\* was searched, which visible() does once its check has passed.
element_click_image(e, offs, button, times, found) ==
    IF valid[e] /\ visible(e)
    THEN [ev |-> click_image(e, button, times, offs, found).ev, ok |-> TRUE,
          searched |-> TRUE]
    ELSE [ev |-> <<>>, ok |-> FALSE,
          searched |-> valid[e] /\ check_image_manager_instance(image_manager[e], name[e])]

\* Element.click(..., walk=False, ...), lines 529-538
click_self(e, offs, button, times, through, found) ==
    IF through = "coordinates"
    THEN LET clicked == click_coordinates(e, button, offs, times)
         IN  IF ~clicked.ok
             THEN element_click_image(e, offs, button, times, found)
             ELSE clicked
    ELSE IF through = "image"
    THEN element_click_image(e, offs, button, times, found)
    ELSE [ev |-> <<>>, ok |-> FALSE, searched |-> FALSE]

RECURSIVE Reverse(_)
Reverse(q) == IF q = <<>> THEN <<>> ELSE Append(Reverse(Tail(q)), Head(q))

\* a mutant: the walk goes from the Element up to the root
walk_order_forward(path) == path

\* line 519: reversed(self.path_to_origin)
walk_order(path) == Reverse(path)

\* click(offset, confidence, button, times, timeout, walk=False, through)
ElementClick(e, offs, button, times, through, found) ==
    LET r == click_self(e, offs, button, times, through, found)
    IN  /\ NoCall
        /\ events' = r.ev
        /\ ret' = BoolStr(r.ok)
        /\ frame' = [pc |-> "done", op |-> "click", self |-> e, walk |-> FALSE,
                     through |-> through, offset |-> offs, button |-> button,
                     times |-> times, searched |-> r.searched]
        /\ UNCHANGED <<elemVars, repoVars, screen, calls>>

\* click(..., walk=True, through): the loop of lines 519-527 is entered.
\* offset, button and times are not passed on to the Elements of the path.
ElementClickWalk(e, through) ==
    /\ NoCall
    /\ events' = <<>>
    /\ ret' = "none"
    /\ frame' = [pc |-> "walk", op |-> "click", self |-> e, walk |-> TRUE,
                 through |-> through, todo |-> walk_order(path_to_origin[e])]
    /\ UNCHANGED <<elemVars, repoVars, screen, calls>>

\* one turn of the loop: element.click(confidence, timeout, walk=False,
\* through) with the default offset, button and times; after the last
\* element line 528 returns True
ClickWalkStep(found) ==
    /\ frame.pc = "walk"
    /\ LET element == Head(frame.todo)
           r == click_self(element, Origin, "left", 1, frame.through, found)
           rest == Tail(frame.todo)
       IN  /\ found \in Found(name[element])
           /\ events' = events \o r.ev
           /\ frame' = [frame EXCEPT !.todo = rest,
                                     !.pc = IF rest = <<>> THEN "done" ELSE "walk"]
           /\ ret' = IF rest = <<>> THEN "True" ELSE ret
    /\ UNCHANGED <<elemVars, repoVars, screen, calls>>

\* the caller has the result of the last call
Return ==
    /\ frame.pc = "done"
    /\ frame' = Idle
    /\ events' = <<>>
    /\ ret' = "none"
    /\ UNCHANGED <<elemVars, repoVars, screen, calls>>

\* between two calls the screen shows other images
ScreenChange(s) ==
    /\ frame.pc = "idle"
    /\ s # screen
    /\ screen' = s
    /\ UNCHANGED <<elemVars, repoVars, events, ret, calls, frame>>

NextClick ==
    \/ \E mgr \in BOOLEAN, loc \in Points \cup {None}, par \in Elements \cup {NoElem} :
          /\ Cardinality(Elements) < MaxChain
          /\ Construct(StemOf(Cardinality(Elements) + 1), mgr, loc, par)
    \/ \E s \in SUBSET Names : ScreenChange(s)
    \/ \E e \in Elements, offs \in Points, button \in Buttons, times \in 1..MaxTimes,
          through \in Throughs :
          \E found \in Found(name[e]) : ElementClick(e, offs, button, times, through, found)
    \/ \E e \in Elements, through \in Throughs : ElementClickWalk(e, through)
    \/ \E found \in Points \cup {None} : ClickWalkStep(found)
    \/ Return

SpecClick == Init /\ [][NextClick]_vars

(***************************************************************************)
(* Element.insert.  A text is a sequence of characters; the keyboard       *)
(* events join the pointer events in `events`.                             *)
(***************************************************************************)
\* more bounds: the characters are 1..MaxChars, a text has at most MaxText
\* of them, and SpecInsert constructs at most MaxFields Elements
MaxChars == 2
MaxText == 2
MaxFields == 2

Texts == UNION {[1..n -> 1..MaxChars] : n \in 0..MaxText}

\* pyautogui.hotkey("ctrl", "a"), pyautogui.write(message, interval) and
\* pyautogui.press('enter'), emitted by the Element e
Hotkey(e, keys) == [el |-> e, type |-> "hotkey", keys |-> keys]
Write(e, message) == [el |-> e, type |-> "write", message |-> message]
Press(e, key) == [el |-> e, type |-> "press", key |-> key]

\* insert(text, interval, enter, offset, through, clear), lines 562-568:
\* the result of self.click(offset=offset, through=through) is dropped
ElementInsert(e, text, enter, offs, through, clear, found) ==
    LET r == click_self(e, offs, "left", 1, through, found)
    IN  /\ NoCall
        /\ events' = r.ev
                     \o (IF clear THEN <<Hotkey(e, <<"ctrl", "a">>)>> ELSE <<>>)
                     \o <<Write(e, text)>>
                     \o (IF enter THEN <<Press(e, "enter")>> ELSE <<>>)
        /\ ret' = "returned"
        /\ frame' = [pc |-> "done", op |-> "insert", self |-> e,
                     clicked |-> r.ok, text |-> text, enter |-> enter,
                     clear |-> clear]
        /\ UNCHANGED <<elemVars, repoVars, screen, calls>>

NextInsert ==
    \/ \E mgr \in BOOLEAN, loc \in Points \cup {None} :
          /\ Cardinality(Elements) < MaxFields
          /\ Construct(StemOf(Cardinality(Elements) + 1), mgr, loc, NoElem)
    \/ \E s \in SUBSET Names : ScreenChange(s)
    \/ \E e \in Elements, text \in Texts, enter \in BOOLEAN, offs \in Points,
          through \in Throughs, clear \in BOOLEAN :
          \E found \in Found(name[e]) :
             ElementInsert(e, text, enter, offs, through, clear, found)
    \/ Return

SpecInsert == Init /\ [][NextInsert]_vars

(***************************************************************************)
(* ImageManager.wait_image and ImageManager.wait_text against a clock.     *)
(* Time is counted in ticks of half a second from the start of the call;   *)
(* a duration shorter than a tick (pyautogui.moveTo(.., 0.1)) takes none.  *)
(* How long a search of the screen takes, and whether it finds the image,  *)
(* is the environment's choice at every search.                            *)
(***************************************************************************)
\* more bounds: timeouts are 0..MaxTimeout ticks, and one search of the
\* screen (locate_image, or the capture and OCR of wait_text) takes
\* 0..MaxLocate ticks
MaxTimeout == 12
MaxLocate == 11

\* sleep(0.5) of wait_image, the 5 seconds between two checkpoints, the
\* sleep(0.5) and sleep(2) of click_image, the sleep(1) of wait_text
PollSleep == 1
ReviveAfter == 10
ClickSleepBefore == 1
ClickSleepAfter == 4
TextSleep == 2

\* no search has started yet
NoTime == -1

Durations == 0..MaxLocate

\* how long ImageManager.click_image takes when its search takes d ticks
\* and returns found (the button is pyautogui.LEFT)
click_image_time(found, d) ==
    ClickSleepBefore + d + (IF found = None THEN 0 ELSE ClickSleepAfter)

\* wait_image(name, timeout, confidence, revive_img): lines 182-184.
\* revive is whether revive_img is not None.
WaitImage(timeout, revive) ==
    /\ NoCall
    /\ frame' = [pc |-> "while", op |-> "wait_image",
                 timeout |-> timeout, revive_img |-> revive,
                 clock |-> 0,
                 is_visible |-> FALSE,
                 start_time |-> 0 + timeout,
                 checkpoint_time |-> 0 + timeout,
                 now |-> 0,
                 target_search |-> NoTime, last_search |-> NoTime,
                 revives |-> <<>>]
    /\ events' = <<>>
    /\ ret' = "none"
    /\ UNCHANGED <<elemVars, repoVars, screen, calls>>

\* a mutant: the loop is entered at the deadline too
WaitImageTestAtDeadline ==
    /\ frame.pc = "while" /\ frame.op = "wait_image"
    /\ IF ~frame.is_visible /\ frame.clock <= frame.start_time
       THEN /\ frame' = [frame EXCEPT !.pc = "locate"]
            /\ ret' = ret
       ELSE /\ frame' = [frame EXCEPT !.pc = "done"]
            /\ ret' = BoolStr(frame.is_visible)
    /\ UNCHANGED <<elemVars, repoVars, screen, events, calls>>

\* line 185, and lines 193-194 when the loop is left
WaitImageTest ==
    /\ frame.pc = "while" /\ frame.op = "wait_image"
    /\ IF ~frame.is_visible /\ frame.clock < frame.start_time
       THEN /\ frame' = [frame EXCEPT !.pc = "locate"]
            /\ ret' = ret
       ELSE /\ frame' = [frame EXCEPT !.pc = "done"]
            /\ ret' = BoolStr(frame.is_visible)
    /\ UNCHANGED <<elemVars, repoVars, screen, events, calls>>

\* lines 186-188: the search of the target, which takes d ticks and finds
\* it or not, the sleep, and now = datetime.now()
WaitImageLocate(found, d) ==
    /\ frame.pc = "locate" /\ frame.op = "wait_image"
    /\ frame' = [frame EXCEPT !.pc = "checkpoint",
                              !.target_search = frame.clock,
                              !.last_search = frame.clock,
                              !.is_visible = found,
                              !.clock = frame.clock + d + PollSleep,
                              !.now = frame.clock + d + PollSleep]
    /\ UNCHANGED <<elemVars, repoVars, screen, events, ret, calls>>

\* lines 189-192: the checkpoint; click_image(revive_img) searches the
\* recovery image for rd ticks and finds it at rfound, or not (None)
WaitImageCheckpoint(rfound, rd) ==
    /\ frame.pc = "checkpoint" /\ frame.op = "wait_image"
    /\ IF frame.now - frame.checkpoint_time > ReviveAfter
       THEN IF frame.revive_img
            THEN /\ frame' = [frame EXCEPT
                        !.pc = "while",
                        !.revives = Append(@, [at |-> frame.clock,
                                               target_found |-> frame.is_visible]),
                        !.last_search = frame.clock + ClickSleepBefore,
                        !.clock = frame.clock + click_image_time(rfound, rd),
                        !.checkpoint_time = frame.now]
                 /\ events' = events \o click_image(NoElem, "left", 1, Origin, rfound).ev
            ELSE /\ frame' = [frame EXCEPT !.pc = "while",
                                           !.checkpoint_time = frame.now]
                 /\ events' = events
       ELSE /\ frame' = [frame EXCEPT !.pc = "while"]
            /\ events' = events
    /\ UNCHANGED <<elemVars, repoVars, screen, ret, calls>>

(***************************************************************************)
(* ImageManager.wait_text(text_to_search, timeout, offset, region,         *)
(* revive_img): the whole call.  seen is whether a poll of the screen      *)
(* would read a fragment that contains the text, d how long a capture and  *)
(* its OCR take, rfound and rd as above.  found is "None", "False" or      *)
(* "True"; w holds the locals and what the call has done so far.           *)
(***************************************************************************)
RECURSIVE wait_text_loop(_, _, _, _, _)
wait_text_loop(w, seen, d, rfound, rd) ==
    \* line 292
    IF w.found = "None" /\ w.clock < w.start_time
    THEN LET \* lines 293-300
             found1 == IF seen THEN "True" ELSE w.found
             \* line 301
             now == w.clock + d
             revive == now - w.checkpoint_time > ReviveAfter
             clicked == revive /\ w.revive_img
             \* lines 302-306
             w1 == [w EXCEPT
                      !.found = found1,
                      !.samples = @ + 1,
                      !.revives = IF clicked
                                  THEN Append(@, [at |-> now,
                                                  target_found |-> found1 = "True"])
                                  ELSE @,
                      !.ev = IF clicked
                             THEN @ \o click_image(NoElem, "left", 1, Origin, rfound).ev
                             ELSE @,
                      !.checkpoint_time = IF revive THEN now ELSE @,
                      !.clock = now + (IF clicked THEN click_image_time(rfound, rd) ELSE 0)
                                    + TextSleep]
         IN  wait_text_loop(w1, seen, d, rfound, rd)
    ELSE w

WaitText(timeout, revive, seen, d, rfound, rd) ==
    LET \* lines 287-291
        w0 == [found |-> "False", revive_img |-> revive, clock |-> 0,
               start_time |-> 0 + timeout, checkpoint_time |-> 0 + timeout,
               samples |-> 0, revives |-> <<>>, ev |-> <<>>]
        w == wait_text_loop(w0, seen, d, rfound, rd)
    IN  /\ NoCall
        /\ frame' = [pc |-> "done", op |-> "wait_text", timeout |-> timeout,
                     revive_img |-> revive, seen |-> seen, clock |-> w.clock,
                     samples |-> w.samples, revives |-> w.revives]
        /\ events' = w.ev
        \* line 308: return found
        /\ ret' = w.found
        /\ UNCHANGED <<elemVars, repoVars, screen, calls>>

NextWait ==
    \/ \E timeout \in 0..MaxTimeout, revive \in BOOLEAN : WaitImage(timeout, revive)
    \/ WaitImageTest
    \/ \E found \in BOOLEAN, d \in Durations : WaitImageLocate(found, d)
    \/ \E rfound \in Points \cup {None}, rd \in Durations : WaitImageCheckpoint(rfound, rd)
    \/ \E timeout \in 0..MaxTimeout, revive \in BOOLEAN, seen \in BOOLEAN,
          d \in Durations, rfound \in Points \cup {None}, rd \in Durations :
          WaitText(timeout, revive, seen, d, rfound, rd)
    \/ Return

SpecWait == Init /\ [][NextWait]_vars

(***************************************************************************)
(* The image folder and ImageManager.load_images.  A file of the folder is *)
(* <<stem, extension>> with its content; cv2.imread gives None for the     *)
(* content NotAnImage and the image itself for any other content.  Files   *)
(* come and go between two calls; Path.iterdir yields them in any order.   *)
(***************************************************************************)
\* more bounds: extensions 1..MaxExts, image contents 1..MaxImages
MaxExts == 2
MaxImages == 2

Files == Names \X (1..MaxExts)
Contents == {NotAnImage} \cup (1..MaxImages)

\* the orders in which iterdir can yield the files S
Orders(S) ==
    {q \in [1..Cardinality(S) -> S] : \A i, j \in DOMAIN q : q[i] = q[j] => i = j}

\* ImageManager.load_images: the loop over the files in the order given
RECURSIVE load_images(_, _, _)
load_images(map, dir, order) ==
    IF order = <<>> THEN map
    ELSE LET photo_path == Head(order)
             img_cv == dir[photo_path]
             stem == photo_path[1]
         IN  IF img_cv = NotAnImage
             THEN load_images(map, dir, Tail(order))
             ELSE load_images([k \in DOMAIN map \cup {stem} |->
                                  IF k = stem THEN img_cv ELSE map[k]],
                              dir, Tail(order))

LoadImages(order) ==
    /\ NoCall
    /\ images_map' = load_images(images_map, folder, order)
    /\ UNCHANGED <<elemVars, folder, screen, events, ret, calls, frame>>

\* a new file is written to the folder
AddFile(f, content) ==
    /\ NoCall
    /\ f \notin DOMAIN folder
    /\ folder' = [g \in DOMAIN folder \cup {f} |-> IF g = f THEN content ELSE folder[g]]
    /\ UNCHANGED <<elemVars, images_map, screen, events, ret, calls, frame>>

\* a file is removed from the folder
RemoveFile(f) ==
    /\ NoCall
    /\ f \in DOMAIN folder
    /\ folder' = [g \in DOMAIN folder \ {f} |-> folder[g]]
    /\ UNCHANGED <<elemVars, images_map, screen, events, ret, calls, frame>>

NextRepo ==
    \/ \E f \in Files, content \in Contents : AddFile(f, content)
    \/ \E f \in Files : RemoveFile(f)
    \/ \E order \in Orders(DOMAIN folder) : LoadImages(order)

SpecRepo == Init /\ [][NextRepo]_vars

(***************************************************************************)
(* ImageManager.move_to_text.  What pytesseract.image_to_data reads in the *)
(* capture is a list of fragments in OCR order, each a text with its left, *)
(* top, width and height.  width / 2 is a true division, so the point the  *)
(* pointer is moved to is kept in half pixels.                             *)
(***************************************************************************)
\* more bounds: a capture holds at most MaxFrags fragments, of width and
\* height 1..MaxBox
MaxFrags == 2
MaxBox == 2

Fragments ==
    [text : Texts, left : 0..MaxCoord, top : {0}, width : 1..MaxBox, height : {MaxBox}]
Captures == UNION {[1..n -> Fragments] : n \in 0..MaxFrags}

\* the region argument: None or (left, top, width, height)
Regions == {None} \cup {<<p[1], p[2], 4, 4>> : p \in Points \ {Origin}}

\* Python's `needle in text`
Contains(needle, text) ==
    \E i \in 0..(Len(text) - Len(needle)) :
        SubSeq(text, i + 1, i + Len(needle)) = needle

\* pyautogui.moveTo(x, y) with x and y in half pixels
MoveToHalf(p2) == [el |-> NoElem, type |-> "moveTo", at2 |-> p2]

\* a variant that takes the last fragment that matches
last_match(text_to_search, image_data) ==
    LET hits == {i \in DOMAIN image_data : Contains(text_to_search, image_data[i].text)}
    IN  IF hits = {} THEN 0 ELSE CHOOSE i \in hits : \A j \in hits : j <= i

\* lines 251-258: the index at which the loop over the fragments returns,
\* 0 when it runs to its end
first_match(text_to_search, image_data) ==
    LET hits == {i \in DOMAIN image_data : Contains(text_to_search, image_data[i].text)}
    IN  IF hits = {} THEN 0 ELSE CHOOSE i \in hits : \A j \in hits : i <= j

\* move_to_text(name, text_to_search, offset, region): name is a file name,
\* shot what pyautogui.screenshot writes to that file, image_data what the
\* OCR reads in it
MoveToText(nm, text_to_search, offs, region, shot, image_data) ==
    LET \* lines 241-242
        offset1 == IF region # None
                   THEN <<offs[1] + region[1], offs[2] + region[2]>>
                   ELSE offs
        i == first_match(text_to_search, image_data)
        center2 == <<2 * image_data[i].left + image_data[i].width,
                     2 * image_data[i].top + image_data[i].height>>
    IN  /\ NoCall
        /\ IF nm \notin DOMAIN folder
           THEN \* lines 243-246
                /\ folder' = folder
                /\ events' = <<>>
                /\ ret' = "False"
           ELSE \* lines 247-260
                /\ folder' = [folder EXCEPT ![nm] = shot]
                /\ events' = IF i = 0 THEN <<>>
                             ELSE <<MoveToHalf(<<center2[1] + 2 * offset1[1],
                                                 center2[2] + 2 * offset1[2]>>)>>
                /\ ret' = BoolStr(i # 0)
        /\ frame' = [pc |-> "done", op |-> "move_to_text",
                     captured |-> nm \in DOMAIN folder,
                     needle |-> text_to_search, offset |-> offs,
                     region |-> region, image_data |-> image_data]
        /\ UNCHANGED <<elemVars, images_map, screen, calls>>

NextText ==
    \/ /\ NoCall
       /\ \E nm \in Files, text_to_search \in Texts, offs \in Points,
             region \in Regions, shot \in 1..MaxImages, image_data \in Captures :
             MoveToText(nm, text_to_search, offs, region, shot, image_data)
    \/ Return

SpecText == Init /\ [][NextText]_vars

(***************************************************************************)
(* Element.visible(confidence, timeout): the check of the image manager,   *)
(* and then image_manager.wait_image(self.name, confidence=.., timeout=..) *)
(* whose steps are those of wait_image above and whose result is returned. *)
(***************************************************************************)
\* timeout: float=0.1, minutes, in ticks
VisibleTimeout == 12

ElementVisible(e) ==
    /\ NoCall
    /\ IF check_image_manager_instance(image_manager[e], name[e])
       THEN /\ frame' = [pc |-> "while", op |-> "wait_image",
                         caller |-> "visible", self |-> e, image |-> name[e],
                         timeout |-> VisibleTimeout, revive_img |-> FALSE,
                         clock |-> 0,
                         is_visible |-> FALSE,
                         start_time |-> 0 + VisibleTimeout,
                         checkpoint_time |-> 0 + VisibleTimeout,
                         now |-> 0,
                         target_search |-> NoTime, last_search |-> NoTime,
                         revives |-> <<>>]
            /\ ret' = "none"
       ELSE /\ frame' = [pc |-> "done", op |-> "visible",
                         caller |-> "visible", self |-> e, image |-> name[e],
                         target_search |-> NoTime, last_search |-> NoTime]
            /\ ret' = "False"
    /\ events' = <<>>
    /\ UNCHANGED <<elemVars, repoVars, screen, calls>>

NextVisible ==
    \/ \E mgr \in BOOLEAN :
          /\ Cardinality(Elements) < MaxFields
          /\ Construct(StemOf(Cardinality(Elements) + 1), mgr, None, NoElem)
    \/ \E f \in Files : RemoveFile(f)
    \/ \E e \in Elements : ElementVisible(e)
    \/ WaitImageTest
    \/ \E found \in BOOLEAN, d \in Durations : WaitImageLocate(found, d)
    \/ \E rfound \in Points \cup {None}, rd \in Durations : WaitImageCheckpoint(rfound, rd)
    \/ Return

SpecVisible == Init /\ [][NextVisible]_vars

(***************************************************************************)
(* ImageManager.wait_till_visible(name, timeout, confidence, revive_img).  *)
(* Each wait_image call it makes is a round, whose steps are those of      *)
(* wait_image above with the clock started anew; frame.outer is where the  *)
(* caller of the round stands.                                             *)
(***************************************************************************)
\* one more bound: a call makes at most MaxRounds rounds
MaxRounds == 2

\* timeout is None
NoTimeout == NoCoord
\* wait_image(name, 1, ..): one minute, in ticks
RoundTimeout == 120

\* the frame of round number n of a wait_till_visible(timeout, revive) call
Round(timeout, revive, n) ==
    LET t == IF timeout = NoTimeout THEN RoundTimeout ELSE timeout
    IN  [pc |-> "while", op |-> "wait_image",
         outer |-> "round", asked |-> timeout, rounds |-> n,
         timeout |-> t, revive_img |-> revive,
         clock |-> 0,
         is_visible |-> FALSE,
         start_time |-> 0 + t,
         checkpoint_time |-> 0 + t,
         now |-> 0,
         target_search |-> NoTime, last_search |-> NoTime,
         revives |-> <<>>]

\* lines 213-216 or 219: the first wait_image call
WaitTillVisible(timeout, revive) ==
    /\ NoCall
    /\ frame' = Round(timeout, revive, 1)
    /\ events' = <<>>
    /\ ret' = "none"
    /\ UNCHANGED <<elemVars, repoVars, screen, calls>>

\* a variant that makes one round whatever the timeout
WaitTillVisibleOnce ==
    /\ frame.pc = "done" /\ "outer" \in DOMAIN frame /\ frame.outer = "round"
    /\ frame' = [frame EXCEPT !.outer = "returned"]
    /\ UNCHANGED <<elemVars, repoVars, screen, events, ret, calls>>

\* a round has returned: lines 215-217 when timeout is None, the loop going
\* into its next round or ending, and line 220 otherwise
WaitTillVisibleNext ==
    /\ frame.pc = "done" /\ "outer" \in DOMAIN frame /\ frame.outer = "round"
    /\ IF frame.asked = NoTimeout /\ ret # "True"
       THEN /\ frame.rounds < MaxRounds
            /\ frame' = Round(frame.asked, frame.revive_img, frame.rounds + 1)
            /\ ret' = "none"
            /\ events' = events
       ELSE /\ frame' = [frame EXCEPT !.outer = "returned"]
            /\ UNCHANGED <<ret, events>>
    /\ UNCHANGED <<elemVars, repoVars, screen, calls>>

\* the caller has the result of wait_till_visible
TillReturn ==
    /\ "outer" \in DOMAIN frame /\ frame.outer = "returned"
    /\ Return

NextTill ==
    \/ \E timeout \in {NoTimeout} \cup (0..MaxTimeout), revive \in BOOLEAN :
          WaitTillVisible(timeout, revive)
    \/ WaitImageTest
    \/ \E found \in BOOLEAN, d \in Durations : WaitImageLocate(found, d)
    \/ \E rfound \in Points \cup {None}, rd \in Durations : WaitImageCheckpoint(rfound, rd)
    \/ WaitTillVisibleNext
    \/ TillReturn

SpecTill == Init /\ [][NextTill]_vars

(***************************************************************************)
(* Element.locate(confidence, is_image) called on e; found is what         *)
(* image_manager.locate_image returns, a point or None.                    *)
(***************************************************************************)
PointStr(v) == IF v = None THEN "None" ELSE "tuple"

ElementLocate(e, is_image, found) ==
    /\ Called
    /\ IF ~is_image /\ location[e] # None
       THEN \* lines 264-266: the cached location is returned
            /\ location' = location
            /\ ret' = PointStr(location[e])
       ELSE IF valid[e]
       THEN \* lines 267-272: the result of the search is stored, found or not
            /\ location' = update_children_location(
                               [Heap EXCEPT !.location[e] = found],
                               DictValues(children[e])).location
            /\ ret' = PointStr(location'[e])
       ELSE \* lines 273-277
            /\ location' = location
            /\ ret' = "None"
    /\ UNCHANGED <<name, image_manager, parent, children, offset,
                   path_to_origin, valid, repoVars, screen, events, frame>>

NextLocate ==
    \/ \E mgr \in BOOLEAN, loc \in Points \cup {None}, par \in Elements \cup {NoElem} :
          /\ Cardinality(Elements) < MaxChain
          /\ Construct(StemOf(Cardinality(Elements) + 1), mgr, loc, par)
    \/ \E s \in SUBSET Names : ScreenChange(s)
    \/ \E e \in Elements, is_image \in BOOLEAN :
          \E found \in Found(name[e]) : ElementLocate(e, is_image, found)

SpecLocate == Init /\ [][NextLocate]_vars

(***************************************************************************)
(* Claims about the Element tree.                                          *)
(***************************************************************************)
\* c is a child of p through both links: its parent is p and a value of
\* p.children is c
Linked(par, ch, c, p) == par[c] = p /\ c \in Range(DictValues(ch[p]))

\* the descendants of p at any depth, each linked to the one above it
RECURSIVE Descendants(_, _, _)
Descendants(par, ch, p) ==
    LET cs == {c \in Range(DictValues(ch[p])) : par[c] = p}
    IN  cs \cup UNION {Descendants(par, ch, c) : c \in cs}

\* d.location == d.parent.location + (d._offsetx, d._offsety)
AtOffset(par, off, loc, d) ==
    /\ loc[d] # None
    /\ loc[par[d]] # None
    /\ loc[d] = Add(loc[par[d]], off[d])

\* C1: when set_location (with a location, with x and y, or with nothing)
\* returns from an Element p that has a parent, every descendant of p, at
\* any depth, is at its parent's location plus its own offset.
C1_SetLocationPropagates ==
    [][\A p \in Elements, a \in LocationArgs :
          (parent[p] # NoElem /\ ElementSetLocation(p, a[1], a[2], a[3]))
          => \A d \in Descendants(parent', children', p) :
                 AtOffset(parent', offset', location', d)]_vars

\* C1's case: p, below a parent, has been moved to where its own offset does
\* not put it, and its child c and grandchild g are where their offsets put
\* them below it.
C1_Witness ==
    \E p \in Elements, c \in Elements, g \in Elements :
        /\ parent[p] # NoElem
        /\ location[p] # Add(OrOrigin(location[parent[p]]), offset[p])
        /\ Linked(parent, children, c, p)
        /\ Linked(parent, children, g, c)
        /\ offset[c] # Origin /\ offset[g] # Origin
        /\ AtOffset(parent, offset, location, c)
        /\ AtOffset(parent, offset, location, g)

\* C2: a child b constructed with an offset below a root a that was
\* constructed at a location is at a.location + the offset; and when
\* a.set_location(nl) returns, a.location is nl and b.location is nl + b's
\* offset.
C2_RootRelocation ==
    [][\A a \in Elements :
          (parent[a] = NoElem /\ location[a] # None)
          => /\ \A d \in Points :
                    Construct(StemOf(Cardinality(Elements) + 1), TRUE, d, a)
                    => location'[Cardinality(Elements) + 1] = Add(location[a], d)
             /\ \A nl \in Points :
                    (/\ \E b \in Elements : Linked(parent, children, b, a)
                     /\ ElementSetLocation(a, nl, NoCoord, NoCoord))
                    => /\ location'[a] = nl
                       /\ \A b \in Elements :
                              Linked(parent', children', b, a)
                              => location'[b] = Add(nl, offset'[b])]_vars

\* C3: c.parent is p exactly when p.children[c.name] is c, and then c is at
\* p.location + c's offset.
C3_BidirectionalLink ==
    \A c \in Elements, p \in Elements :
        /\ (parent[c] = p) <=> (DictGet(children[p], name[c]) = c)
        /\ parent[c] = p => location[c] = Add(OrOrigin(location[p]), offset[c])

(***************************************************************************)
(* Claims about Element.click.                                             *)
(***************************************************************************)
ClickDone == frame.pc = "done" /\ frame.op = "click"

\* the click events among evs that were emitted for the Element c
ClicksOn(evs, c) == SelectSeq(evs, LAMBDA ev : ev.type = "click" /\ ev.el = c)

\* c has no cached location, and its image is not bound or not on screen
Unlocatable(c) ==
    location[c] = None /\ (~valid[c] \/ name[c] \notin screen)

\* C4: a click (walk False or True, any through) on an Element that cannot
\* be located (with walk=True: some Element of whose walk path cannot be
\* located) returns False, and emits no click for an Element that cannot
\* be located.
C4_ClickUnlocatable ==
    ClickDone =>
        LET clicked == IF frame.walk THEN Range(path_to_origin[frame.self])
                       ELSE {frame.self}
            missing == {c \in clicked : Unlocatable(c)}
        IN  missing # {} =>
                /\ ret = "False"
                /\ \A c \in missing : ClicksOn(events, c) = <<>>

\* the ancestor chain of e along the parent links, from the root down to e
RECURSIVE RootToSelf(_)
RootToSelf(e) ==
    IF parent[e] = NoElem THEN <<e>> ELSE Append(RootToSelf(parent[e]), e)

\* one click on each Element of the chain, at its cached location
RECURSIVE ClicksAlong(_)
ClicksAlong(chain) ==
    IF chain = <<>> THEN <<>>
    ELSE <<MoveTo(Head(chain), location[Head(chain)]), Click(Head(chain), "left", 1)>>
             \o ClicksAlong(Tail(chain))

\* C5: click(walk=True) on an Element whose chain of n Elements was built
\* by the constructors, each with a cached location, emits exactly n clicks,
\* one per Element of the chain from the root down to the Element itself,
\* and nothing else.
C5_WalkRootToSelf ==
    (/\ ClickDone /\ frame.walk /\ frame.through = "coordinates"
     /\ \A c \in Range(RootToSelf(frame.self)) : location[c] # None)
    => events = ClicksAlong(RootToSelf(frame.self))

\* C5's case: the walk over a chain of three Elements has returned
C5_Witness ==
    /\ ClickDone /\ frame.walk /\ frame.through = "coordinates"
    /\ Len(RootToSelf(frame.self)) = 3
    /\ \A c \in Range(RootToSelf(frame.self)) : location[c] # None
    /\ Len(events) = 6
    /\ ret = "True"

(***************************************************************************)
(* Claims about the waits.                                                 *)
(***************************************************************************)
WaitImageDone == frame.pc = "done" /\ frame.op = "wait_image"
WaitTextDone == frame.pc = "done" /\ frame.op = "wait_text"
Waiting == frame.pc # "idle" /\ frame.op \in {"wait_image", "wait_text"}

\* C6: a wait_image call with a recovery image and a deadline longer than
\* 5 seconds that never finds its target has called click_image on the
\* recovery image at least once by the time it returns, and has searched
\* the target again after that click.
C6_RecoveryClickHappens ==
    (/\ WaitImageDone
     /\ frame.revive_img
     /\ frame.timeout > ReviveAfter
     /\ ret = "False")
    => /\ frame.revives # <<>>
       /\ frame.target_search > frame.revives[1].at

\* C7: during one wait, two recovery clicks are at least 5 seconds apart,
\* and a recovery click is made only at a checkpoint where the target is
\* still not found.
C7_RecoveryClickSpacing ==
    Waiting
    => /\ \A i, j \in DOMAIN frame.revives :
             i < j => frame.revives[j].at - frame.revives[i].at >= ReviveAfter
       /\ \A i \in DOMAIN frame.revives : ~frame.revives[i].target_found

\* the longest turn of the loop of wait_image without a recovery click, and
\* the longest click_image call
PollInterval == MaxLocate + PollSleep
ClickImageMax == click_image_time(Origin, MaxLocate)

\* C8, as the code has it: at every point of a wait_image call with
\* deadline D no more than D plus one poll interval has passed since the
\* call started, plus one click_image call when a recovery image is
\* configured (so the call ends, a turn of the loop taking at least the
\* sleep), and no search of the target starts once D has passed.
C8_BoundedWait ==
    (frame.pc # "idle" /\ frame.op = "wait_image")
    => /\ frame.clock <= frame.timeout + PollInterval
                         + (IF frame.revive_img THEN ClickImageMax ELSE 0)
       /\ frame.target_search < frame.start_time

\* C8's case: a call whose target never appeared returns False after more
\* than D plus one poll interval, its last turn having clicked the recovery
\* image.
C8_Witness ==
    /\ WaitImageDone
    /\ ret = "False"
    /\ frame.revives # <<>>
    /\ frame.clock > frame.timeout + PollInterval
    /\ frame.target_search # NoTime

\* C8 as stated: a wait_image call whose target never appears returns False
\* no later than D plus one poll interval after it started, and starts no
\* search once D has passed.
C8_BoundedWaitAsStated ==
    (WaitImageDone /\ ret = "False")
    => /\ frame.clock <= frame.timeout + PollInterval
       /\ frame.last_search < frame.start_time

\* C9: a wait_text call with a deadline greater than zero samples the
\* screen at least once; it returns True when a sample contains the text,
\* and returns False only when no sample contained it.
C9_WaitTextPolls ==
    (WaitTextDone /\ frame.timeout > 0)
    => /\ frame.samples >= 1
       /\ frame.seen => ret = "True"
       /\ ret = "False" => ~frame.seen

(***************************************************************************)
(* Claims about the image repository.                                      *)
(***************************************************************************)
\* the stems of the decodable files of a folder
DecodableStems(dir) == {f[1] : f \in {g \in DOMAIN dir : dir[g] # NotAnImage}}

\* C10: after load_images the keys of images_map are the stems of the
\* decodable files that are in the folder at that moment, and each key maps
\* to the image of such a file; so a stem whose file was removed has no
\* entry after the reload.
C10_ReloadRoundTrip ==
    [][(\E order \in Orders(DOMAIN folder) : LoadImages(order))
       => /\ DOMAIN images_map' = DecodableStems(folder)
          /\ \A s \in DOMAIN images_map' :
                \E f \in DOMAIN folder : f[1] = s /\ folder[f] = images_map'[s]]_vars

(***************************************************************************)
(* Claims about Element.insert.                                            *)
(***************************************************************************)
InsertDone == frame.pc = "done" /\ frame.op = "insert"
Keyboard == {"hotkey", "write", "press"}

\* C11: when the focus click of an insert call returned False, the call
\* has emitted no keyboard event: no select-all, no typed text, no enter.
C11_InsertNotFound ==
    (InsertDone /\ ~frame.clicked)
    => \A i \in DOMAIN events : events[i].type \notin Keyboard

\* the focused text field of C12: a click on the Element puts the focus in
\* the field, select-all selects its whole content, typed characters
\* replace the selection or else are appended, and without the focus the
\* keys do not reach the field
FieldKey(f, ev) ==
    IF ev.type = "click" THEN [f EXCEPT !.focused = TRUE, !.selected = FALSE]
    ELSE IF ~f.focused THEN f
    ELSE IF ev.type = "hotkey" THEN [f EXCEPT !.selected = TRUE]
    ELSE IF ev.type = "write" /\ ev.message # <<>>
    THEN [f EXCEPT !.content = IF f.selected THEN ev.message
                                ELSE f.content \o ev.message,
                   !.selected = FALSE]
    ELSE f

RECURSIVE FieldAfter(_, _)
FieldAfter(f, evs) ==
    IF evs = <<>> THEN f ELSE FieldAfter(FieldKey(f, Head(evs)), Tail(evs))

Field(prior) == [content |-> prior, focused |-> FALSE, selected |-> FALSE]

\* C12: an insert call with clear=True whose focus click succeeded has
\* emitted the click, the select-all, the text and, only when enter=True,
\* an enter keypress, in this order; whatever the field held before, it
\* holds exactly the text afterwards, and also after the same events again.
C12_InsertOverwrites ==
    (InsertDone /\ frame.clear /\ frame.clicked)
    => /\ Len(events) = 4 + (IF frame.enter THEN 1 ELSE 0)
       /\ events[1].type = "moveTo" /\ events[2].type = "click"
       /\ events[3] = Hotkey(frame.self, <<"ctrl", "a">>)
       /\ events[4] = Write(frame.self, frame.text)
       /\ frame.enter => events[5] = Press(frame.self, "enter")
       /\ \A prior \in Texts :
             LET once == FieldAfter(Field(prior), events)
                 twice == FieldAfter(Field(once.content), events)
             IN  once.content = frame.text /\ twice.content = frame.text

(***************************************************************************)
(* More claims about the Element tree.                                     *)
(***************************************************************************)
\* C13: an Element constructed with no parent and no location is at (0, 0),
\* and a root that is at (0, 0) stays there over every step that is not a
\* set_location call on it.
C13_RootDefaultLocation ==
    [][/\ Construct(StemOf(Cardinality(Elements) + 1), TRUE, None, NoElem)
          => location'[Cardinality(Elements) + 1] = Origin
       /\ \A e \in Elements :
             (/\ parent[e] = NoElem
              /\ location[e] = Origin
              /\ ~\E a \in LocationArgs : ElementSetLocation(e, a[1], a[2], a[3]))
             => location'[e] = Origin]_vars

(***************************************************************************)
(* Claims about ImageManager.move_to_text.                                 *)
(***************************************************************************)
MoveToTextDone == frame.pc = "done" /\ frame.op = "move_to_text"

Matches == {i \in DOMAIN frame.image_data :
               Contains(frame.needle, frame.image_data[i].text)}

\* the centre of the fragment f, shifted by the origin of the region and by
\* the offset, in half pixels
Centre2(f) ==
    LET shift == IF frame.region = None THEN frame.offset
                 ELSE Add(frame.offset, <<frame.region[1], frame.region[2]>>)
    IN  <<2 * f.left + f.width + 2 * shift[1], 2 * f.top + f.height + 2 * shift[2]>>

\* C14: a move_to_text call that captured the region moves the pointer once,
\* to the centre (left + width/2, top + height/2, shifted by the region
\* origin and the offset) of the first fragment in OCR order whose text
\* contains the needle, and returns True; when no fragment contains the
\* needle it returns False and does not move the pointer.
C14_FirstMatch ==
    (MoveToTextDone /\ frame.captured)
    => IF Matches = {}
       THEN ret = "False" /\ events = <<>>
       ELSE /\ ret = "True"
            /\ \E i \in Matches :
                  /\ \A j \in Matches : i <= j
                  /\ events = <<MoveToHalf(Centre2(frame.image_data[i]))>>

\* C14's case: two fragments with different centres contain the needle, in
\* a region with an offset, and the call returned True.
C14_Witness ==
    /\ MoveToTextDone /\ frame.captured
    /\ ret = "True"
    /\ frame.region # None /\ frame.offset # Origin
    /\ Matches = {1, 2}
    /\ Centre2(frame.image_data[1]) # Centre2(frame.image_data[2])
    /\ frame.needle # <<>>

(***************************************************************************)
(* Claims about Element.visible.                                           *)
(***************************************************************************)
VisibleDone == frame.pc = "done" /\ "caller" \in DOMAIN frame
NoFileOf(e) == ~\E f \in DOMAIN folder : f[1] = name[e]
Delegated ==
    /\ frame.op = "wait_image"
    /\ frame.image = name[frame.self]
    /\ ret = BoolStr(frame.is_visible)
    /\ frame.target_search # NoTime

\* C15, as the code has it: visible returns False, having searched the
\* screen not once and emitted nothing, when the Element has no image
\* manager, when no file of the manager's folder has its stem, or when its
\* name is not a key of images_map; in every other case it returns the
\* result of wait_image for its name.
C15_VisibleMisconfigured ==
    VisibleDone
    => LET e == frame.self
       IN  IF ~image_manager[e] \/ NoFileOf(e) \/ name[e] \notin DOMAIN images_map
           THEN ret = "False" /\ frame.last_search = NoTime /\ events = <<>>
           ELSE Delegated

\* C15's case: the manager maps the name but the file is gone from the
\* folder, and visible has returned False without a search.
C15_Witness ==
    /\ VisibleDone
    /\ image_manager[frame.self]
    /\ name[frame.self] \in DOMAIN images_map
    /\ NoFileOf(frame.self)
    /\ ret = "False" /\ frame.last_search = NoTime

\* C15 as stated: False without a search when the Element has no image
\* manager or its name is not a key of images_map, and the result of
\* wait_image in every other case.
C15_VisibleAsStated ==
    VisibleDone
    => LET e == frame.self
       IN  IF ~image_manager[e] \/ name[e] \notin DOMAIN images_map
           THEN ret = "False" /\ frame.last_search = NoTime /\ events = <<>>
           ELSE Delegated

(***************************************************************************)
(* Claims about ImageManager.wait_till_visible.                            *)
(***************************************************************************)
TillReturned ==
    frame.pc = "done" /\ "outer" \in DOMAIN frame /\ frame.outer = "returned"

\* C16: a wait_till_visible call with timeout None returns only True, and
\* only from a one-minute wait_image round whose last search found the
\* target, so it is still polling for as long as no search has found it; a
\* call with a finite timeout returns the result of its one wait_image
\* round with that timeout.
C16_UnboundedWait ==
    TillReturned
    => IF frame.asked = NoTimeout
       THEN /\ ret = "True"
            /\ frame.is_visible /\ frame.target_search # NoTime
            /\ frame.timeout = RoundTimeout
       ELSE /\ frame.rounds = 1
            /\ frame.timeout = frame.asked
            /\ ret = BoolStr(frame.is_visible)

\* C16's case: a call with timeout None whose first round found nothing
\* has returned True from a later round.
C16_Witness ==
    /\ TillReturned
    /\ frame.asked = NoTimeout
    /\ frame.rounds > 1
    /\ ret = "True"

(***************************************************************************)
(* More claims about Element.click.                                        *)
(***************************************************************************)
ClickSelfDone == ClickDone /\ ~frame.walk
Clicked == \E i \in DOMAIN events : events[i].type = "click"

\* C17: click(through='coordinates', walk=False) on an Element with a
\* cached location moves the pointer to the location plus the offset and
\* clicks there with the given button and repeat count, without a search of
\* the screen, and returns True; on an Element with no cached location a
\* click is emitted only if the Element is valid and its image is visible;
\* a through that is neither 'coordinates' nor 'image' returns False with
\* no event.
C17_CoordinateClick ==
    ClickSelfDone
    => LET e == frame.self
       IN  /\ (frame.through = "coordinates" /\ location[e] # None)
              => /\ events = <<MoveTo(e, Add(location[e], frame.offset)),
                               Click(e, frame.button, frame.times)>>
                 /\ ret = "True"
                 /\ ~frame.searched
           /\ (frame.through = "coordinates" /\ location[e] = None)
              => /\ Clicked => (valid[e] /\ visible(e) /\ frame.searched)
                 /\ ret = "True" => (valid[e] /\ visible(e))
           /\ frame.through \notin {"coordinates", "image"}
              => ret = "False" /\ events = <<>>

\* C17's case: a click through coordinates on a cached location, with an
\* offset, the middle button and two clicks.
C17_Witness ==
    /\ ClickSelfDone
    /\ frame.through = "coordinates"
    /\ location[frame.self] \notin {None, Origin}
    /\ frame.offset # Origin /\ frame.button = "middle" /\ frame.times = 2
    /\ ret = "True"

(***************************************************************************)
(* Claims about the children of an Element.                                *)
(***************************************************************************)
\* C18: add_child with a child given as a single Element, as a list or as a
\* dict does not raise, and afterwards the Element's children map the
\* child's name to the child that was already there under that name when
\* overwrite is False, and to the given child otherwise.
C18_ChildrenNormalised ==
    [][\A e \in Elements, c \in Elements, kind \in ChildKinds, overwrite \in BOOLEAN :
          ElementAddChild(e, kind, c, overwrite)
          => /\ ret' = "returned"
             /\ LET child_found == DictGet(children[e], name[c])
                IN  DictGet(children'[e], name[c]) =
                        IF child_found # NoElem /\ ~overwrite THEN child_found ELSE c]_vars

(***************************************************************************)
(* Claims about the result of a click and about the walk path.             *)
(***************************************************************************)
\* C19: a click(walk=False) that went through _click_image, in image mode
\* or as the fallback of coordinate mode, returns True only if a pointer
\* click was emitted.
C19_ImageClickTruthful ==
    (/\ ClickSelfDone
     /\ \/ frame.through = "image"
        \/ frame.through = "coordinates" /\ location[frame.self] = None
     /\ ret = "True")
    => Clicked

\* the Element e, its parent, the parent's parent, up to the root
RECURSIVE ChainUp(_, _)
ChainUp(par, e) ==
    IF par[e] = NoElem THEN <<e>> ELSE <<e>> \o ChainUp(par, par[e])

PathsOk(nm, par, path) == \A e \in DOMAIN nm : path[e] = ChainUp(par, e)

\* C20: a construction or a set_parent call on Elements whose walk paths
\* all are the chain from the Element up to its root leaves them so.
C20_WalkPath ==
    [][(/\ PathsOk(name, parent, path_to_origin)
        /\ \/ \E loc \in Points \cup {None}, par \in Elements \cup {NoElem} :
                 Construct(StemOf(Cardinality(Elements) + 1), TRUE, loc, par)
           \/ \E e \in Elements, p \in Elements : ElementSetParent(e, p))
       => PathsOk(name', parent', path_to_origin')]_vars

(***************************************************************************)
(* Claims about Element.locate.                                            *)
(***************************************************************************)
\* C21: locate(is_image=True) on a valid Element whose search finds nothing
\* returns None and leaves the location of the Element and of all its
\* descendants as they were; a search that finds the image at p leaves the
\* Element at p and each of its children at p plus the child's offset.
C21_LocateKeepsCache ==
    [][\A e \in Elements, found \in Points \cup {None} :
          (valid[e] /\ ElementLocate(e, TRUE, found))
          => IF found = None
             THEN /\ ret' = "None"
                  /\ location'[e] = location[e]
                  /\ \A d \in Descendants(parent, children, e) :
                        location'[d] = location[d]
             ELSE /\ location'[e] = found
                  /\ \A c \in Elements :
                        Linked(parent, children, c, e)
                        => location'[c] = Add(found, offset[c])]_vars

====
